---- MODULE Spec2Model ----
(***************************************************************************)
(* A model of telesync/graphics.py: the SVG path builder (Path), the       *)
(* Logo-like Turtle built on it, and the scene / draw / reset protocol.    *)
(*                                                                         *)
(* Numbers.  A Python number is a record [t, m]: t is its type ("int" or   *)
(* "float") and m its value in thousandths, so 3.456 is [t |-> "float",    *)
(* m |-> 3456] and the int 4 is [t |-> "int", m |-> 4000].  Floats are     *)
(* drawn from values whose thousandths digit is not 5, or that are         *)
(* multiples of 0.125 (exact in binary, so round() sees a true tie and     *)
(* rounds half to even).                                                   *)
(***************************************************************************)
EXTENDS Integers, Sequences, FiniteSets, TLC

VARIABLES
    _Path__d,    \* Path.__d of every Path object: a list of string tokens
    calls,       \* history: the builder calls made on every Path object
    Path_ret,    \* the value returned by the last Path method call
    _p,          \* Turtle._p: position vector
    _a,          \* Turtle._a: orientation vector
    _pd,         \* Turtle._pd: pen down?
    _path,       \* Turtle._path: the Path object the turtle owns
    ops,         \* history: the Turtle calls made on every Turtle, constructor first
    Turtle_ret,  \* the value returned by the last Turtle method call
    data,        \* the Data table returned by scene()
    calls_o,     \* history: the scene / draw / reset calls made
    Ref_ret,     \* the value returned by the last scene / draw / reset call
    heap,        \* the element objects created so far; an object is its index
    el_calls,    \* history: the constructor / attribute / type_of calls made
    El_ret,      \* the value returned by the last of those calls
    held,        \* the elements path() returned that the caller still holds
    vec,         \* a _Vec the caller holds
    vec_log      \* history: the rotate calls made, with receiver and result

PathVars == <<_Path__d, calls, Path_ret>>
TurtleVars == <<_p, _a, _pd, _path, ops, Turtle_ret>>
SceneVars == <<data, calls_o, Ref_ret>>
ElementVars == <<heap, el_calls, El_ret>>
VecVars == <<vec, vec_log>>
vars == <<_Path__d, calls, Path_ret, _p, _a, _pd, _path, ops, Turtle_ret,
          data, calls_o, Ref_ret, heap, el_calls, El_ret, held, vec, vec_log>>

(***************************************************************************)
(* Bounds                                                                  *)
(***************************************************************************)
MaxCmds == 2        \* builder calls made on a standalone Path
MaxMoves == 3       \* calls made on a Turtle
MaxDraws == 3       \* draw / reset calls made on a scene
MaxElCalls == 3     \* constructor / attribute / type_of calls made
MaxTurns == 3       \* rotate calls made on vectors
MaxSteps == 3       \* calls made by a caller who keeps the elements of path()
MaxPairSteps == 3   \* calls made on two Paths and two Turtles together

None == [kind |-> "none"]

(***************************************************************************)
(* Python numbers and their conversion to text                             *)
(***************************************************************************)
PyInt(n) == [t |-> "int", m |-> n * 1000]
PyFloat(m) == [t |-> "float", m |-> m]
PyBool(b) == [t |-> "bool", m |-> IF b THEN 1000 ELSE 0]

Abs(n) == IF n < 0 THEN 0 - n ELSE n

\* float(x): the value is kept, the type becomes float
float(x) == [t |-> "float", m |-> x.m]

\* bool(x): Python truthiness of a number
truthy(x) == x.m # 0

\* a round() that drops the third decimal instead of rounding on it
round2_truncating(x) ==
    [neg |-> x.m < 0, h |-> Abs(x.m) \div 10]

\* round(x, 2) of a float: sign and magnitude in hundredths, ties to even.
\* The sign is kept when the magnitude rounds to zero (-0.004 -> -0.0).
round2(x) ==
    LET mag == Abs(x.m)
        q == mag \div 10
        r == mag % 10
        up == (r > 5) \/ (r = 5 /\ q % 2 = 1)
    IN [neg |-> x.m < 0, h |-> IF up THEN q + 1 ELSE q]

\* str() of a float that has at most two decimals: the shortest repr, which
\* always keeps one digit after the point.
str_float(f) ==
    LET whole == f.h \div 100
        frac == f.h % 100
        digits == IF frac % 10 = 0 THEN ToString(frac \div 10)
                  ELSE IF frac < 10 THEN "0" \o ToString(frac)
                  ELSE ToString(frac)
    IN (IF f.neg THEN "-" ELSE "") \o ToString(whole) \o "." \o digits

\* str() of an int, or of a bool
str_int(x) ==
    IF x.t = "bool" THEN (IF x.m # 0 THEN "True" ELSE "False")
    ELSE ToString(x.m \div 1000)

\* str(round(arg, 2) if isinstance(arg, float) else arg)
str_arg(arg) ==
    IF arg.t = "float" THEN str_float(round2(arg)) ELSE str_int(arg)

\* a join that writes the separator after every token, the last included
RECURSIVE join_trailing(_)
join_trailing(tokens) ==
    IF Len(tokens) = 0 THEN ""
    ELSE tokens[1] \o " " \o join_trailing(Tail(tokens))

\* ' '.join(tokens)
RECURSIVE join(_)
join(tokens) ==
    IF Len(tokens) = 0 THEN ""
    ELSE IF Len(tokens) = 1 THEN tokens[1]
    ELSE tokens[1] \o " " \o join(Tail(tokens))

(***************************************************************************)
(* Objects                                                                 *)
(***************************************************************************)
Paths == {"path1", "path2", "tpath1", "tpath2"}
Turtles == {"turtle1", "turtle2"}

\* Path.__init__
Path___init__ == <<>>

(***************************************************************************)
(* Path                                                                    *)
(***************************************************************************)
\* history of the public builder calls: command and arguments as passed
called(self, command, args) ==
    calls' = [calls EXCEPT ![self] = Append(@, [c |-> command, args |-> args])]

\* a _d that inserts the command at the head of the list
_d_prepending(self, command, args) ==
    /\ _Path__d' = [_Path__d EXCEPT ![self] =
            (<<command>> \o [i \in 1..Len(args) |-> str_arg(args[i])]) \o @]
    /\ Path_ret' = [kind |-> "self", v |-> self]

\* a _d whose list of tokens belongs to the class, not to the instance
_d_class_list(self, command, args) ==
    /\ _Path__d' = [o \in Paths |->
            _Path__d[o] \o (<<command>> \o [i \in 1..Len(args) |-> str_arg(args[i])])]
    /\ Path_ret' = [kind |-> "self", v |-> self]

_d(self, command, args) ==
    /\ _Path__d' = [_Path__d EXCEPT ![self] =
            Append(@, command) \o [i \in 1..Len(args) |-> str_arg(args[i])]]
    /\ Path_ret' = [kind |-> "self", v |-> self]

d(self) == join(_Path__d[self])

\* a d() that hands the commands over and starts the path afresh
Path_d_flushing(self) ==
    /\ Path_ret' = [kind |-> "str", v |-> d(self)]
    /\ _Path__d' = [_Path__d EXCEPT ![self] = <<>>]
    /\ UNCHANGED calls

Path_d(self) ==
    /\ Path_ret' = [kind |-> "str", v |-> d(self)]
    /\ UNCHANGED <<_Path__d, calls>>

Path_M(self, x, y) == _d(self, "M", <<x, y>>) /\ called(self, "M", <<x, y>>)
Path_m(self, x, y) == _d(self, "m", <<x, y>>) /\ called(self, "m", <<x, y>>)
Path_Z(self) == _d(self, "Z", <<>>) /\ called(self, "Z", <<>>)
Path_z(self) == _d(self, "z", <<>>) /\ called(self, "z", <<>>)
Path_L(self, x, y) == _d(self, "L", <<x, y>>) /\ called(self, "L", <<x, y>>)
Path_l(self, x, y) == _d(self, "l", <<x, y>>) /\ called(self, "l", <<x, y>>)
Path_H(self, x) == _d(self, "H", <<x>>) /\ called(self, "H", <<x>>)
Path_h(self, x) == _d(self, "h", <<x>>) /\ called(self, "h", <<x>>)
Path_V(self, y) == _d(self, "V", <<y>>) /\ called(self, "V", <<y>>)
Path_v(self, y) == _d(self, "v", <<y>>) /\ called(self, "v", <<y>>)
Path_C(self, x1, y1, x2, y2, x, y) ==
    _d(self, "C", <<x1, y1, x2, y2, x, y>>)
        /\ called(self, "C", <<x1, y1, x2, y2, x, y>>)
Path_c(self, x1, y1, x2, y2, x, y) ==
    _d(self, "c", <<x1, y1, x2, y2, x, y>>)
        /\ called(self, "c", <<x1, y1, x2, y2, x, y>>)
Path_S(self, x2, y2, x, y) ==
    _d(self, "S", <<x2, y2, x, y>>) /\ called(self, "S", <<x2, y2, x, y>>)
Path_s(self, x2, y2, x, y) ==
    _d(self, "s", <<x2, y2, x, y>>) /\ called(self, "s", <<x2, y2, x, y>>)
Path_Q(self, x1, y1, x, y) ==
    _d(self, "Q", <<x1, y1, x, y>>) /\ called(self, "Q", <<x1, y1, x, y>>)
Path_q(self, x1, y1, x, y) ==
    _d(self, "q", <<x1, y1, x, y>>) /\ called(self, "q", <<x1, y1, x, y>>)
Path_T(self, x, y) == _d(self, "T", <<x, y>>) /\ called(self, "T", <<x, y>>)
Path_t(self, x, y) == _d(self, "t", <<x, y>>) /\ called(self, "t", <<x, y>>)
\* an A that passes its flags on as they came
Path_A_raw_flags(self, rx, ry, x_axis_rotation, large_arc, sweep, x, y) ==
    _d(self, "A", <<rx, ry, x_axis_rotation, large_arc, sweep, x, y>>)
        /\ called(self, "A", <<rx, ry, x_axis_rotation, large_arc, sweep, x, y>>)

Path_A(self, rx, ry, x_axis_rotation, large_arc, sweep, x, y) ==
    _d(self, "A", <<rx, ry, x_axis_rotation,
                    IF truthy(large_arc) THEN PyInt(1) ELSE PyInt(0),
                    IF truthy(sweep) THEN PyInt(1) ELSE PyInt(0), x, y>>)
        /\ called(self, "A", <<rx, ry, x_axis_rotation, large_arc, sweep, x, y>>)
Path_a(self, rx, ry, x_axis_rotation, large_arc, sweep, x, y) ==
    _d(self, "a", <<rx, ry, x_axis_rotation,
                    IF truthy(large_arc) THEN PyInt(1) ELSE PyInt(0),
                    IF truthy(sweep) THEN PyInt(1) ELSE PyInt(0), x, y>>)
        /\ called(self, "a", <<rx, ry, x_axis_rotation, large_arc, sweep, x, y>>)

(***************************************************************************)
(* _Vec and angles.  An angle in radians is kept as the number of          *)
(* thousandths of a degree it was converted from; cos and sin are exact    *)
(* on the multiples of a quarter turn, the only angles the callers below   *)
(* use (the residue of order 1e-16 that math.cos leaves there is below the *)
(* two decimals the path keeps).                                           *)
(***************************************************************************)
_Vec(x, y) == [x |-> float(x), y |-> float(y)]

fadd(u, v) == PyFloat(u.m + v.m)
fneg(u) == PyFloat(0 - u.m)
\* exact when one factor is a whole number
fmul(u, v) == PyFloat((u.m * v.m) \div 1000)

_Vec___add__(self, v) == _Vec(fadd(self.x, v.x), fadd(self.y, v.y))
_Vec___mul__(self, v) == _Vec(fmul(self.x, v), fmul(self.y, v))

radians(degrees) == [t |-> "rad", k |-> degrees.m]

QuarterTurns(a) == (a.k \div 90000) % 4

cos(a) == PyFloat(CASE QuarterTurns(a) = 0 -> 1000
                    [] QuarterTurns(a) = 2 -> -1000
                    [] OTHER -> 0)
sin(a) == PyFloat(CASE QuarterTurns(a) = 1 -> 1000
                    [] QuarterTurns(a) = 3 -> -1000
                    [] OTHER -> 0)

\* a rotation about the perpendicular (y, -x)
_Vec_rotate_clockwise(self, a) ==
    LET p == _Vec(self.y, fneg(self.x))
        c == cos(a)
        s == sin(a)
    IN _Vec(fadd(fmul(self.x, c), fmul(p.x, s)),
            fadd(fmul(self.y, c), fmul(p.y, s)))

_Vec_rotate(self, a) ==
    LET p == _Vec(fneg(self.y), self.x)
        c == cos(a)
        s == sin(a)
    IN _Vec(fadd(fmul(self.x, c), fmul(p.x, s)),
            fadd(fmul(self.y, c), fmul(p.y, s)))

(***************************************************************************)
(* Turtle                                                                  *)
(***************************************************************************)
\* a turtle that starts with its pen down
Turtle___init___pen_down(x, y, degrees) ==
    [_p |-> _Vec(x, y),
     _a |-> _Vec(cos(radians(degrees)), sin(radians(degrees))),
     _pd |-> TRUE]

\* the fields Turtle.__init__(x, y, degrees) sets; _path is a fresh Path
Turtle___init__(x, y, degrees) ==
    [_p |-> _Vec(x, y),
     _a |-> _Vec(cos(radians(degrees)), sin(radians(degrees))),
     _pd |-> FALSE]

\* history of the public Turtle calls: the operation, its argument, and the
\* pen state at the time of the call
did(self, op, args) ==
    ops' = [ops EXCEPT ![self] =
                Append(@, [op |-> op, args |-> args, pd |-> _pd[self]])]

Turtle_returns_self(self) == Turtle_ret' = [kind |-> "self", v |-> self]

\* a _draw that emits nothing while the pen is up
_draw_pen_down_only(self) ==
    /\ IF _pd[self]
       THEN Path_L(_path[self], _p'[self].x, _p'[self].y)
       ELSE UNCHANGED PathVars
    /\ Turtle_returns_self(self)

\* Turtle._draw runs after its caller has assigned _p, so it reads _p'
_draw(self) ==
    /\ IF _pd[self]
       THEN Path_L(_path[self], _p'[self].x, _p'[self].y)
       ELSE Path_M(_path[self], _p'[self].x, _p'[self].y)
    /\ Turtle_returns_self(self)

\* a _move that emits the command before it moves
_move_drawing_first(self, dist) ==
    /\ _p' = [_p EXCEPT ![self] = _Vec___add__(@, _Vec___mul__(_a[self], dist))]
    /\ IF _pd[self]
       THEN Path_L(_path[self], _p[self].x, _p[self].y)
       ELSE Path_M(_path[self], _p[self].x, _p[self].y)
    /\ Turtle_returns_self(self)

_move(self, dist) ==
    /\ _p' = [_p EXCEPT ![self] = _Vec___add__(@, _Vec___mul__(_a[self], dist))]
    /\ _draw(self)

_rotate(self, a) ==
    /\ _a' = [_a EXCEPT ![self] = _Vec_rotate(@, radians(a))]
    /\ Turtle_returns_self(self)

neg(x) == [t |-> x.t, m |-> 0 - x.m]

Turtle_f(self, distance) ==
    /\ _move(self, distance)
    /\ did(self, "f", <<distance>>)
    /\ UNCHANGED <<_a, _pd, _path>>

Turtle_b(self, distance) ==
    /\ _move(self, neg(distance))
    /\ did(self, "b", <<distance>>)
    /\ UNCHANGED <<_a, _pd, _path>>

\* an l that turns the way r does
Turtle_l_clockwise(self, degrees) ==
    /\ _rotate(self, degrees)
    /\ did(self, "l", <<degrees>>)
    /\ UNCHANGED <<_p, _pd, _path, PathVars>>

Turtle_l(self, degrees) ==
    /\ _rotate(self, neg(degrees))
    /\ did(self, "l", <<degrees>>)
    /\ UNCHANGED <<_p, _pd, _path, PathVars>>

Turtle_r(self, degrees) ==
    /\ _rotate(self, degrees)
    /\ did(self, "r", <<degrees>>)
    /\ UNCHANGED <<_p, _pd, _path, PathVars>>

\* a pu that closes the subpath only when the pen was down
Turtle_pu_closing_drawn(self, close) ==
    /\ IF truthy(close) /\ _pd[self]
       THEN Path_Z(_path[self])
       ELSE UNCHANGED PathVars
    /\ _pd' = [_pd EXCEPT ![self] = FALSE]
    /\ Turtle_returns_self(self)
    /\ did(self, "pu", <<close>>)
    /\ UNCHANGED <<_p, _a, _path>>

Turtle_pu(self, close) ==
    /\ IF truthy(close) THEN Path_Z(_path[self]) ELSE UNCHANGED PathVars
    /\ _pd' = [_pd EXCEPT ![self] = FALSE]
    /\ Turtle_returns_self(self)
    /\ did(self, "pu", <<close>>)
    /\ UNCHANGED <<_p, _a, _path>>

\* a pd that marks the place where the pen came down
Turtle_pd_marking(self) ==
    /\ _pd' = [_pd EXCEPT ![self] = TRUE]
    /\ Path_M(_path[self], _p[self].x, _p[self].y)
    /\ Turtle_returns_self(self)
    /\ did(self, "pd", <<>>)
    /\ UNCHANGED <<_p, _a, _path>>

Turtle_pd(self) ==
    /\ _pd' = [_pd EXCEPT ![self] = TRUE]
    /\ Turtle_returns_self(self)
    /\ did(self, "pd", <<>>)
    /\ UNCHANGED <<_p, _a, _path, PathVars>>

\* a p that moves by (x, y) instead of to (x, y)
Turtle_p_relative(self, x, y) ==
    /\ _p' = [_p EXCEPT ![self] = _Vec___add__(@, _Vec(x, y))]
    /\ _draw(self)
    /\ did(self, "p", <<x, y>>)
    /\ UNCHANGED <<_a, _pd, _path>>

Turtle_p(self, x, y) ==
    /\ _p' = [_p EXCEPT ![self] = _Vec(x, y)]
    /\ _draw(self)
    /\ did(self, "p", <<x, y>>)
    /\ UNCHANGED <<_a, _pd, _path>>

Turtle_a(self, degrees) ==
    /\ _a' = [_a EXCEPT ![self] =
                _Vec(cos(radians(degrees)), sin(radians(degrees)))]
    /\ Turtle_returns_self(self)
    /\ did(self, "a", <<degrees>>)
    /\ UNCHANGED <<_p, _pd, _path, PathVars>>

Turtle_d(self) ==
    /\ Path_d(_path[self])
    /\ Turtle_ret' = [kind |-> "str", v |-> d(_path[self])]
    /\ UNCHANGED <<_p, _a, _pd, _path, ops>>

(***************************************************************************)
(* Elements.  A Python dict is the sequence of its <<key, value>> items in *)
(* insertion order; a value is a number or a string [t |-> "str", s].      *)
(***************************************************************************)
PyStr(s) == [t |-> "str", s |-> s]

dict_keys(dict) == {dict[i][1] : i \in 1..Len(dict)}

\* dict[k]
dict_get(dict, k) == dict[CHOOSE i \in 1..Len(dict) : dict[i][1] = k][2]

\* dict.get(k, default)
dict_get_or(dict, k, default) ==
    IF k \in dict_keys(dict) THEN dict_get(dict, k) ELSE default

\* dict[k] = v: an existing key keeps its place, a new key goes last
dict_set(dict, k, v) ==
    IF k \in dict_keys(dict)
    THEN [i \in 1..Len(dict) |-> IF dict[i][1] = k THEN <<k, v>> ELSE dict[i]]
    ELSE Append(dict, <<k, v>>)

\* dict(items, **kwargs) for kwargs that repeat no key of items
dict_merge(items, kwargs) == items \o kwargs

\* json.dumps of a value
json_value(v) ==
    CASE v.t = "str" -> "\"" \o v.s \o "\""
      [] v.t = "bool" -> (IF v.m # 0 THEN "true" ELSE "false")
      [] v.t = "int" -> ToString(v.m \div 1000)

RECURSIVE json_items(_)
json_items(dict) ==
    IF Len(dict) = 0 THEN ""
    ELSE "\"" \o dict[1][1] \o "\": " \o json_value(dict[1][2])
            \o (IF Len(dict) = 1 THEN "" ELSE ", " \o json_items(Tail(dict)))

\* json.dumps of a dict
json_dumps(dict) == "{" \o json_items(dict) \o "}"

\* core.Expando and core.expando_to_dict
Expando(dict) == [kind |-> "Expando", kv |-> dict]
expando_to_dict(e) == e.kv

\* core.Expando.__getitem__: element[k], None for a missing attribute
Expando___getitem__(e, k) == dict_get_or(expando_to_dict(e), k, None)

\* core.Expando.__setattr__: element.k = v
Expando___setattr__(e, k, v) == Expando(dict_set(expando_to_dict(e), k, v))

\* an _el that leaves alone a _t the dict already has
_el_keeping(t, dict) ==
    IF "_t" \in dict_keys(dict) THEN Expando(dict)
    ELSE Expando(dict_set(dict, "_t", PyStr(t)))

_el(t, dict) == Expando(dict_set(dict, "_t", PyStr(t)))

\* a table in which polygon and polyline have changed places
_element_types_swapped ==
    <<<<"a", PyStr("arc")>>, <<"c", PyStr("circle")>>, <<"e", PyStr("ellipse")>>,
      <<"i", PyStr("image")>>, <<"l", PyStr("line")>>, <<"p", PyStr("path")>>,
      <<"pg", PyStr("polyline")>>, <<"pl", PyStr("polygon")>>,
      <<"r", PyStr("rect")>>, <<"t", PyStr("text")>>>>

_element_types ==
    <<<<"a", PyStr("arc")>>, <<"c", PyStr("circle")>>, <<"e", PyStr("ellipse")>>,
      <<"i", PyStr("image")>>, <<"l", PyStr("line")>>, <<"p", PyStr("path")>>,
      <<"pg", PyStr("polygon")>>, <<"pl", PyStr("polyline")>>,
      <<"r", PyStr("rect")>>, <<"t", PyStr("text")>>>>

\* _element_types.get(element['_t'], None); a key that is no string is in
\* no table of strings
type_of(element) ==
    LET key == Expando___getitem__(element, "_t")
    IN IF key = None THEN None
       ELSE IF key.t # "str" THEN None
       ELSE dict_get_or(_element_types, key.s, None)

arc(r1, r2, a1, a2, kwargs) ==
    _el("a", dict_merge(<<<<"r1", r1>>, <<"r2", r2>>, <<"a1", a1>>, <<"a2", a2>>>>,
                        kwargs))
circle(kwargs) == _el("c", kwargs)
ellipse(kwargs) == _el("e", kwargs)
image(kwargs) == _el("i", kwargs)
line(kwargs) == _el("l", kwargs)
path(kwargs) == _el("p", kwargs)
polygon(kwargs) == _el("pg", kwargs)
polyline(kwargs) == _el("pl", kwargs)
rect(kwargs) == _el("r", kwargs)
text(txt, kwargs) == _el("t", dict_merge(<<<<"text", txt>>>>, kwargs))

(***************************************************************************)
(* Path.path and Turtle.path: the path element of the commands so far.     *)
(* kwargs has no key d (Python rejects the call otherwise).                *)
(***************************************************************************)
\* a path that drops the attributes of the caller
Path_path_bare(self, kwargs) ==
    /\ Path_ret' = [kind |-> "el", v |-> path(<<<<"d", PyStr(d(self))>>>>)]
    /\ UNCHANGED <<_Path__d, calls>>

Path_path(self, kwargs) ==
    /\ Path_ret' = [kind |-> "el",
                    v |-> path(dict_merge(<<<<"d", PyStr(d(self))>>>>, kwargs))]
    /\ UNCHANGED <<_Path__d, calls>>

Turtle_path(self, kwargs) ==
    /\ Path_path(_path[self], kwargs)
    /\ Turtle_ret' = Path_ret'
    /\ UNCHANGED <<_p, _a, _pd, _path, ops>>

(***************************************************************************)
(* Element objects.  A constructor call returns a new object: the object   *)
(* _el wraps around the dict of the call, which Python creates afresh for  *)
(* every call.  An object is named by its index in heap.                   *)
(***************************************************************************)
\* history of the calls on elements: operation, arguments, the object
\* concerned, its value after the call, and the value returned
made(op, args, ref, ret) ==
    el_calls' = Append(el_calls, [op |-> op, args |-> args, ref |-> ref,
                                  val |-> heap'[ref], ret |-> ret])

\* a constructor that hands out the object of an earlier call with the same
\* arguments
_el_object_interned(op, args, e) ==
    IF \E i \in 1..Len(heap) : heap[i] = e
    THEN LET i == CHOOSE i \in 1..Len(heap) : heap[i] = e
         IN /\ UNCHANGED heap
            /\ El_ret' = [kind |-> "ref", v |-> i]
            /\ made(op, args, i, None)
    ELSE /\ heap' = Append(heap, e)
         /\ El_ret' = [kind |-> "ref", v |-> Len(heap) + 1]
         /\ made(op, args, Len(heap) + 1, None)

\* the call op(args) returns the element e as a new object
_el_object(op, args, e) ==
    /\ heap' = Append(heap, e)
    /\ El_ret' = [kind |-> "ref", v |-> Len(heap) + 1]
    /\ made(op, args, Len(heap) + 1, None)

\* element.k = v on the object ref
set_attr(ref, k, v) ==
    /\ heap' = [heap EXCEPT ![ref] = Expando___setattr__(@, k, v)]
    /\ El_ret' = None
    /\ made("setattr", <<k, v>>, ref, None)

\* type_of(element) on the object ref
call_type_of(ref) ==
    /\ UNCHANGED heap
    /\ El_ret' = type_of(heap[ref])
    /\ made("type_of", <<>>, ref, type_of(heap[ref]))

(***************************************************************************)
(* Scene, draw, reset                                                      *)
(***************************************************************************)
\* str.split(): the words of a string of words separated by single spaces
RECURSIVE split(_)
split(s) ==
    IF Len(s) = 0 THEN <<>>
    ELSE IF \E i \in 1..Len(s) : SubSeq(s, i, i) = " "
    THEN LET i == CHOOSE i \in 1..Len(s) :
                    /\ SubSeq(s, i, i) = " "
                    /\ \A j \in 1..(i - 1) : SubSeq(s, j, j) # " "
         IN <<SubSeq(s, 1, i - 1)>> \o split(SubSeq(s, i + 1, Len(s)))
    ELSE <<s>>

\* core.data(fields, rows): a table of keyed rows with named columns
_data(fields, rows) ==
    [kind |-> "Data", fields |-> split(fields), rows |-> rows]

\* core.Ref: a handle to the row of a scene with the given key
Ref(key) == [kind |-> "Ref", key |-> key]

Column(fields, name) == CHOOSE i \in 1..Len(fields) : fields[i] = name

\* core.Ref.__setitem__: element[name] = value
Ref___setitem__(element, name, value) ==
    data' = [data EXCEPT !.rows =
        [i \in 1..Len(@) |->
            IF @[i][1] = element.key
            THEN <<@[i][1], [@[i][2] EXCEPT ![Column(data.fields, name)] = value]>>
            ELSE @[i]]]

\* core.Ref.__getitem__: element[name]
Ref___getitem__(element, name) ==
    LET i == CHOOSE i \in 1..Len(data.rows) : data.rows[i][1] = element.key
    IN data.rows[i][2][Column(data.fields, name)]

\* history of the scene / draw / reset calls: operation, reference,
\* attributes, and the table as it was before the call
asked(op, element, kwargs) ==
    calls_o' = Append(calls_o, [op |-> op, ref |-> element, kwargs |-> kwargs,
                                before |-> data])

\* a scene whose override column starts as a copy of the base attributes
scene_overriding(kwargs) ==
    /\ data' = _data("d o",
          [i \in 1..Len(kwargs) |->
              <<kwargs[i][1], <<json_dumps(expando_to_dict(kwargs[i][2])),
                                json_dumps(expando_to_dict(kwargs[i][2]))>>>>])
    /\ Ref_ret' = data'
    /\ asked("scene", None, kwargs)

scene(kwargs) ==
    /\ data' = _data("d o",
          [i \in 1..Len(kwargs) |->
              <<kwargs[i][1], <<json_dumps(expando_to_dict(kwargs[i][2])), "">>>>])
    /\ Ref_ret' = data'
    /\ asked("scene", None, kwargs)

\* a draw that writes the attributes over the base column
draw_over_base(element, kwargs) ==
    /\ Ref___setitem__(element, "d", json_dumps(kwargs))
    /\ Ref_ret' = element
    /\ asked("draw", element, kwargs)

\* a draw that adds its attributes to those of the draws before it
draw_accumulating(element, kwargs) ==
    LET old(i) == calls_o[i].op = "draw" /\ calls_o[i].ref = element
        drawn == {i \in 1..Len(calls_o) : old(i)}
        prev == IF drawn = {} THEN <<>>
                ELSE calls_o[CHOOSE i \in drawn : \A j \in drawn : j <= i].kwargs
        kept(p) == p[1] \notin dict_keys(kwargs)
    IN /\ Ref___setitem__(element, "o",
                json_dumps(SelectSeq(prev, kept) \o kwargs))
       /\ Ref_ret' = element
       /\ asked("draw", element, kwargs)

draw(element, kwargs) ==
    /\ Ref___setitem__(element, "o", json_dumps(kwargs))
    /\ Ref_ret' = element
    /\ asked("draw", element, kwargs)

\* a reset that writes the encoding of no attributes instead of nothing
reset_to_empty_object(element) ==
    /\ Ref___setitem__(element, "o", json_dumps(<<>>))
    /\ Ref_ret' = element
    /\ asked("reset", element, <<>>)

\* a reset that clears an override but marks a row that has none
reset_toggling(element) ==
    /\ Ref___setitem__(element, "o",
            IF Ref___getitem__(element, "o") = "" THEN json_dumps(<<>>) ELSE "")
    /\ Ref_ret' = element
    /\ asked("reset", element, <<>>)

reset(element) ==
    /\ Ref___setitem__(element, "o", "")
    /\ Ref_ret' = element
    /\ asked("reset", element, <<>>)

(***************************************************************************)
(* Arguments the calls are made with.  An argument list of n operands is   *)
(* a window of n consecutive entries of Operands (wrapping around), so the *)
(* operands of one call are pairwise distinct and of both types.           *)
(***************************************************************************)
Operands == <<PyInt(1), PyInt(2), PyFloat(3456), PyInt(4),
              PyFloat(-4), PyFloat(125), PyFloat(10000)>>

Window(k, n) == [i \in 1..n |-> Operands[((k + i - 2) % Len(Operands)) + 1]]

ArgsOf(n, offsets) == {Window(k, n) : k \in offsets}
Flags == {PyBool(TRUE), PyBool(FALSE)}

(***************************************************************************)
(* Initial state: every object as its constructor leaves it                *)
(***************************************************************************)
Distances == {PyInt(10), PyFloat(3456), PyInt(0)}
Degrees == {PyInt(90), PyFloat(-90000)}
Positions == {<<PyInt(0), PyInt(0)>>, <<PyFloat(1500), PyInt(-2)>>}
TurtleArgs == {<<PyFloat(0), PyFloat(0), PyFloat(0)>>,
               <<PyInt(1), PyInt(2), PyInt(90)>>,
               <<PyFloat(250), PyInt(0), PyInt(270)>>}

Extras == {<<>>, <<<<"stroke", PyStr("red")>>>>}
Attrs == {<<>>,
          <<<<"x", PyInt(1)>>>>,
          <<<<"x", PyInt(2)>>, <<"fill", PyStr("red")>>>>}
Scenes == {<<<<"a", circle(<<<<"r", PyInt(5)>>>>)>>,
             <<"b", rect(<<<<"x", PyInt(1)>>, <<"y", PyInt(2)>>>>)>>>>,
           <<<<"b", rect(<<<<"x", PyInt(1)>>, <<"y", PyInt(2)>>>>)>>,
             <<"a", circle(<<<<"r", PyInt(5)>>>>)>>>>,
           <<<<"c", text(PyStr("hi"), <<>>)>>>>,
           <<>>}

InitPaths ==
    /\ _Path__d = [o \in Paths |-> Path___init__]
    /\ calls = [o \in Paths |-> <<>>]
    /\ Path_ret = None

InitTurtles(args) ==
    /\ _p = [t \in Turtles |-> Turtle___init__(args[1], args[2], args[3])._p]
    /\ _a = [t \in Turtles |-> Turtle___init__(args[1], args[2], args[3])._a]
    /\ _pd = [t \in Turtles |-> Turtle___init__(args[1], args[2], args[3])._pd]
    /\ _path = [t \in Turtles |-> IF t = "turtle1" THEN "tpath1" ELSE "tpath2"]
    /\ ops = [t \in Turtles |-> <<[op |-> "__init__", args |-> args, pd |-> FALSE]>>]
    /\ Turtle_ret = None

InitScene ==
    /\ data = None
    /\ calls_o = <<>>
    /\ Ref_ret = None

InitElements ==
    /\ heap = <<>>
    /\ el_calls = <<>>
    /\ El_ret = None
    /\ held = <<>>

InitVec(v) ==
    /\ vec = v
    /\ vec_log = <<>>

DefaultTurtle == <<PyFloat(0), PyFloat(0), PyFloat(0)>>
UnitVec == _Vec(PyInt(1), PyInt(0))

Init ==
    /\ InitPaths /\ InitTurtles(DefaultTurtle) /\ InitScene
    /\ InitElements /\ InitVec(UnitVec)

(***************************************************************************)
(* A standalone Path driven by an arbitrary caller                         *)
(***************************************************************************)
CanCall(self) == Len(calls[self]) < MaxCmds

PathOnly == UNCHANGED <<TurtleVars, SceneVars, ElementVars, VecVars, held>>

CallM(self) == \E v \in ArgsOf(2, {1, 3, 5}) :
    CanCall(self) /\ Path_M(self, v[1], v[2]) /\ PathOnly
Callm(self) == \E v \in ArgsOf(2, {2}) :
    CanCall(self) /\ Path_m(self, v[1], v[2]) /\ PathOnly
CallZ(self) == CanCall(self) /\ Path_Z(self) /\ PathOnly
Callz(self) == CanCall(self) /\ Path_z(self) /\ PathOnly
CallL(self) == \E v \in ArgsOf(2, {1, 3, 5}) :
    CanCall(self) /\ Path_L(self, v[1], v[2]) /\ PathOnly
Calll(self) == \E v \in ArgsOf(2, {4}) :
    CanCall(self) /\ Path_l(self, v[1], v[2]) /\ PathOnly
CallH(self) == \E v \in ArgsOf(1, {1}) :
    CanCall(self) /\ Path_H(self, v[1]) /\ PathOnly
Callh(self) == \E v \in ArgsOf(1, {3}) :
    CanCall(self) /\ Path_h(self, v[1]) /\ PathOnly
CallV(self) == \E v \in ArgsOf(1, {5}) :
    CanCall(self) /\ Path_V(self, v[1]) /\ PathOnly
Callv(self) == \E v \in ArgsOf(1, {6}) :
    CanCall(self) /\ Path_v(self, v[1]) /\ PathOnly
CallC(self) == \E v \in ArgsOf(6, {1}) :
    CanCall(self) /\ Path_C(self, v[1], v[2], v[3], v[4], v[5], v[6]) /\ PathOnly
Callc(self) == \E v \in ArgsOf(6, {4}) :
    CanCall(self) /\ Path_c(self, v[1], v[2], v[3], v[4], v[5], v[6]) /\ PathOnly
CallS(self) == \E v \in ArgsOf(4, {1}) :
    CanCall(self) /\ Path_S(self, v[1], v[2], v[3], v[4]) /\ PathOnly
Calls(self) == \E v \in ArgsOf(4, {3}) :
    CanCall(self) /\ Path_s(self, v[1], v[2], v[3], v[4]) /\ PathOnly
CallQ(self) == \E v \in ArgsOf(4, {5}) :
    CanCall(self) /\ Path_Q(self, v[1], v[2], v[3], v[4]) /\ PathOnly
Callq(self) == \E v \in ArgsOf(4, {7}) :
    CanCall(self) /\ Path_q(self, v[1], v[2], v[3], v[4]) /\ PathOnly
CallT(self) == \E v \in ArgsOf(2, {6}) :
    CanCall(self) /\ Path_T(self, v[1], v[2]) /\ PathOnly
Callt(self) == \E v \in ArgsOf(2, {7}) :
    CanCall(self) /\ Path_t(self, v[1], v[2]) /\ PathOnly
CallA(self) == \E v \in ArgsOf(5, {3}), large_arc \in Flags, sweep \in Flags :
    CanCall(self)
        /\ Path_A(self, v[1], v[2], v[3], large_arc, sweep, v[4], v[5])
        /\ PathOnly
Calla(self) == \E v \in ArgsOf(5, {1}), large_arc \in Flags, sweep \in Flags :
    CanCall(self)
        /\ Path_a(self, v[1], v[2], v[3], large_arc, sweep, v[4], v[5])
        /\ PathOnly
Calld(self) == Path_d(self) /\ PathOnly

Next ==
    \/ CallM("path1") \/ Callm("path1") \/ CallZ("path1") \/ Callz("path1")
    \/ CallL("path1") \/ Calll("path1") \/ CallH("path1") \/ Callh("path1")
    \/ CallV("path1") \/ Callv("path1") \/ CallC("path1") \/ Callc("path1")
    \/ CallS("path1") \/ Calls("path1") \/ CallQ("path1") \/ Callq("path1")
    \/ CallT("path1") \/ Callt("path1") \/ CallA("path1") \/ Calla("path1")
    \/ Calld("path1")

Spec == Init /\ [][Next]_vars

(***************************************************************************)
(* A Turtle driven by an arbitrary caller                                  *)
(***************************************************************************)
CanDo(self) == Len(ops[self]) < MaxMoves + 1

TurtleOnly == UNCHANGED <<SceneVars, ElementVars, VecVars, held>>

Dof(self) == \E distance \in Distances :
    CanDo(self) /\ Turtle_f(self, distance) /\ TurtleOnly
Dob(self) == \E distance \in Distances :
    CanDo(self) /\ Turtle_b(self, distance) /\ TurtleOnly
Dol(self) == \E degrees \in Degrees :
    CanDo(self) /\ Turtle_l(self, degrees) /\ TurtleOnly
Dor(self) == \E degrees \in Degrees :
    CanDo(self) /\ Turtle_r(self, degrees) /\ TurtleOnly
Dopu(self) == \E close \in Flags :
    CanDo(self) /\ Turtle_pu(self, close) /\ TurtleOnly
Dopd(self) == CanDo(self) /\ Turtle_pd(self) /\ TurtleOnly
Dop(self) == \E xy \in Positions :
    CanDo(self) /\ Turtle_p(self, xy[1], xy[2]) /\ TurtleOnly
Doa(self) == \E degrees \in Degrees :
    CanDo(self) /\ Turtle_a(self, degrees) /\ TurtleOnly
Dod(self) == Turtle_d(self) /\ TurtleOnly
Dopath(self) == \E kwargs \in Extras :
    Turtle_path(self, kwargs) /\ TurtleOnly

TurtleInit == \E args \in TurtleArgs :
    /\ InitPaths /\ InitTurtles(args) /\ InitScene
    /\ InitElements /\ InitVec(UnitVec)

TurtleNext ==
    \/ Dof("turtle1") \/ Dob("turtle1") \/ Dol("turtle1") \/ Dor("turtle1")
    \/ Dopu("turtle1") \/ Dopd("turtle1") \/ Dop("turtle1")
    \/ Doa("turtle1") \/ Dod("turtle1") \/ Dopath("turtle1")

TurtleSpec == TurtleInit /\ [][TurtleNext]_vars

(***************************************************************************)
(* A scene and the references into it, driven by an arbitrary caller       *)
(***************************************************************************)
Refs == IF data = None THEN {}
        ELSE {Ref(data.rows[i][1]) : i \in 1..Len(data.rows)}

SceneOnly == UNCHANGED <<PathVars, TurtleVars, ElementVars, VecVars, held>>

MakeScene == \E kwargs \in Scenes :
    /\ data = None
    /\ scene(kwargs)
    /\ SceneOnly

Draw == \E element \in Refs, kwargs \in Attrs :
    Len(calls_o) < MaxDraws + 1 /\ draw(element, kwargs) /\ SceneOnly

Reset == \E element \in Refs :
    Len(calls_o) < MaxDraws + 1 /\ reset(element) /\ SceneOnly

SceneNext == MakeScene \/ Draw \/ Reset

SceneSpec == Init /\ [][SceneNext]_vars

(***************************************************************************)
(* Elements built, changed and asked for their type by an arbitrary caller *)
(***************************************************************************)
CanMake == Len(el_calls) < MaxElCalls

ElementOnly == UNCHANGED <<PathVars, TurtleVars, SceneVars, VecVars, held>>

Radius == <<<<"r", PyInt(5)>>>>
Tag == <<<<"_t", PyStr("zz")>>>>
Tagged == <<<<"r", PyInt(5)>>, <<"_t", PyStr("zz")>>>>
Corner == <<<<"x", PyInt(1)>>, <<"y", PyInt(2)>>>>
Quadrant == <<PyInt(1), PyInt(2), PyInt(0), PyInt(90)>>
NewAttrs == {<<"r", PyInt(7)>>, <<"_t", PyStr("zz")>>}

NewArc == \E kwargs \in {<<>>, Tag} :
    /\ CanMake
    /\ _el_object("arc", Quadrant \o <<kwargs>>,
            arc(Quadrant[1], Quadrant[2], Quadrant[3], Quadrant[4], kwargs))
    /\ ElementOnly
NewCircle == \E kwargs \in {Radius, Tagged} :
    CanMake /\ _el_object("circle", <<kwargs>>, circle(kwargs)) /\ ElementOnly
NewEllipse == \E kwargs \in {Corner, Corner \o Tag} :
    CanMake /\ _el_object("ellipse", <<kwargs>>, ellipse(kwargs)) /\ ElementOnly
NewImage == \E kwargs \in {Corner, Tag \o Corner} :
    CanMake /\ _el_object("image", <<kwargs>>, image(kwargs)) /\ ElementOnly
NewLine == \E kwargs \in {<<>>, Tag} :
    CanMake /\ _el_object("line", <<kwargs>>, line(kwargs)) /\ ElementOnly
NewPath == \E kwargs \in {<<<<"d", PyStr("M 0 0 Z")>>>>,
                         Tag \o <<<<"d", PyStr("M 0 0 Z")>>>>} :
    CanMake /\ _el_object("path", <<kwargs>>, path(kwargs)) /\ ElementOnly
NewPolygon == \E kwargs \in {Radius, Tagged} :
    CanMake /\ _el_object("polygon", <<kwargs>>, polygon(kwargs)) /\ ElementOnly
NewPolyline == \E kwargs \in {Radius, Tagged} :
    CanMake /\ _el_object("polyline", <<kwargs>>, polyline(kwargs)) /\ ElementOnly
NewRect == \E kwargs \in {Corner, Corner \o Tag} :
    CanMake /\ _el_object("rect", <<kwargs>>, rect(kwargs)) /\ ElementOnly
NewText == \E kwargs \in {Corner, Tag \o Corner} :
    /\ CanMake
    /\ _el_object("text", <<PyStr("hi"), kwargs>>, text(PyStr("hi"), kwargs))
    /\ ElementOnly
SetAttr == \E ref \in 1..Len(heap), kv \in NewAttrs :
    CanMake /\ set_attr(ref, kv[1], kv[2]) /\ ElementOnly
TypeOf == \E ref \in 1..Len(heap) :
    CanMake /\ call_type_of(ref) /\ ElementOnly

ElementNext ==
    \/ NewArc \/ NewCircle \/ NewEllipse \/ NewImage \/ NewLine \/ NewPath
    \/ NewPolygon \/ NewPolyline \/ NewRect \/ NewText \/ SetAttr \/ TypeOf

ElementSpec == Init /\ [][ElementNext]_vars

(***************************************************************************)
(* A caller who builds a Path and drives a Turtle, and keeps the elements  *)
(* path() returns while going on                                           *)
(***************************************************************************)
Within ==
    Len(calls["path1"]) + (Len(ops["turtle1"]) - 1) + Len(held) < MaxSteps

keep(el, self, kwargs) ==
    held' = Append(held, [el |-> el, of |-> self, n |-> Len(calls[self]),
                          kwargs |-> kwargs])

KeepM == Within /\ CallM("path1")
KeepZ == Within /\ CallZ("path1")
Keepf == Within /\ Dof("turtle1")
Keeppd == Within /\ Dopd("turtle1")
KeepPath == \E kwargs \in Extras :
    /\ Within
    /\ Path_path("path1", kwargs)
    /\ keep(Path_ret'.v, "path1", kwargs)
    /\ UNCHANGED <<TurtleVars, SceneVars, ElementVars, VecVars>>
KeepTurtlePath == \E kwargs \in Extras :
    /\ Within
    /\ Turtle_path("turtle1", kwargs)
    /\ keep(Turtle_ret'.v, _path["turtle1"], kwargs)
    /\ UNCHANGED <<SceneVars, ElementVars, VecVars>>

SnapshotNext ==
    KeepM \/ KeepZ \/ Keepf \/ Keeppd \/ KeepPath \/ KeepTurtlePath

SnapshotSpec == Init /\ [][SnapshotNext]_vars

(***************************************************************************)
(* Two Paths and two Turtles used side by side, their calls interleaved in *)
(* any order                                                               *)
(***************************************************************************)
Together ==
    Len(calls["path1"]) + Len(calls["path2"])
        + (Len(ops["turtle1"]) - 1) + (Len(ops["turtle2"]) - 1) < MaxPairSteps

PairM(self) == Together /\ CallM(self)
PairZ(self) == Together /\ CallZ(self)
Pairf(self) == Together /\ Dof(self)
Pairr(self) == Together /\ Dor(self)
Pairpd(self) == Together /\ Dopd(self)

PairNext ==
    \/ PairM("path1") \/ PairM("path2") \/ PairZ("path1") \/ PairZ("path2")
    \/ Pairf("turtle1") \/ Pairf("turtle2") \/ Pairr("turtle1") \/ Pairr("turtle2")
    \/ Pairpd("turtle1") \/ Pairpd("turtle2")

PairSpec == Init /\ [][PairNext]_vars

(***************************************************************************)
(* Vectors rotated by an arbitrary caller, who either binds the result to  *)
(* another name (w = v.rotate(a)) or to the name of the receiver           *)
(* (v = v.rotate(a), as Turtle._rotate does)                               *)
(***************************************************************************)
Vectors == {UnitVec, _Vec(PyInt(3), PyInt(-2)), _Vec(PyFloat(250), PyFloat(1500))}
Angles == {radians(PyInt(0)), radians(PyInt(90)), radians(PyInt(180)),
           radians(PyInt(-90))}

CanTurn == Len(vec_log) < MaxTurns

VecOnly == UNCHANGED <<PathVars, TurtleVars, SceneVars, ElementVars, held>>

rotated(a, rebound) ==
    vec_log' = Append(vec_log, [recv |-> vec, a |-> a,
                                ret |-> _Vec_rotate(vec, a), rebound |-> rebound])

Rotate == \E a \in Angles :
    CanTurn /\ rotated(a, FALSE) /\ UNCHANGED vec /\ VecOnly
RotateInPlace == \E a \in Angles :
    CanTurn /\ rotated(a, TRUE) /\ vec' = _Vec_rotate(vec, a) /\ VecOnly

VecInit == \E v \in Vectors :
    /\ InitPaths /\ InitTurtles(DefaultTurtle) /\ InitScene
    /\ InitElements /\ InitVec(v)

VecNext == Rotate \/ RotateInPlace

VecSpec == VecInit /\ [][VecNext]_vars

(***************************************************************************)
(* Reading text back                                                       *)
(***************************************************************************)
Char(s, i) == SubSeq(s, i, i)
Last(seq) == seq[Len(seq)]
Front(seq) == SubSeq(seq, 1, Len(seq) - 1)

IsPrefix(a, b) == Len(a) <= Len(b) /\ SubSeq(b, 1, Len(a)) = a

IsDigit(ch) == ch \in {"0", "1", "2", "3", "4", "5", "6", "7", "8", "9"}
DigitVal(ch) == CHOOSE k \in 0..9 : ToString(k) = ch
AllDigits(s) == Len(s) > 0 /\ \A i \in 1..Len(s) : IsDigit(Char(s, i))

RECURSIVE NatVal(_)
NatVal(s) ==
    IF Len(s) = 0 THEN 0 ELSE NatVal(Front(s)) * 10 + DigitVal(Char(s, Len(s)))

Negative(s) == Len(s) > 0 /\ Char(s, 1) = "-"
Unsigned(s) == IF Negative(s) THEN SubSeq(s, 2, Len(s)) ELSE s
Points(s) == {i \in 1..Len(s) : Char(s, i) = "."}
PointAt(s) == CHOOSE i \in Points(s) : TRUE

\* s is a decimal number with one or two digits after the point
IsDecimal(s) ==
    LET u == Unsigned(s)
    IN /\ Cardinality(Points(u)) = 1
       /\ AllDigits(SubSeq(u, 1, PointAt(u) - 1))
       /\ AllDigits(SubSeq(u, PointAt(u) + 1, Len(u)))
       /\ Len(u) - PointAt(u) \in {1, 2}

\* the magnitude of a decimal number, in hundredths
Hundredths(s) ==
    LET u == Unsigned(s)
        frac == SubSeq(u, PointAt(u) + 1, Len(u))
    IN NatVal(SubSeq(u, 1, PointAt(u) - 1)) * 100
         + (IF Len(frac) = 1 THEN NatVal(frac) * 10 ELSE NatVal(frac))

\* s is the number x rounded to two decimals, written as a decimal number
IsRounded(s, x) ==
    /\ IsDecimal(s)
    /\ Negative(s) = (x.m < 0)
    /\ Abs(Hundredths(s) * 10 - Abs(x.m)) <= 5

\* s is the integer literal of the int x
IsLiteral(s, x) ==
    /\ AllDigits(Unsigned(s))
    /\ Negative(s) = (x.m < 0)
    /\ NatVal(Unsigned(s)) * 1000 = Abs(x.m)

(***************************************************************************)
(* What a history of builder calls should serialize to                     *)
(***************************************************************************)
Arity(c) ==
    CASE c \in {"M", "m", "L", "l", "T", "t"} -> 2
      [] c \in {"H", "h", "V", "v"} -> 1
      [] c \in {"C", "c"} -> 6
      [] c \in {"S", "s", "Q", "q"} -> 4
      [] c \in {"A", "a"} -> 7
      [] c \in {"Z", "z"} -> 0

IsFlag(c, i) == c \in {"A", "a"} /\ i \in {4, 5}

OperandText(call, i) ==
    IF IsFlag(call.c, i) THEN (IF call.args[i].m # 0 THEN "1" ELSE "0")
    ELSE str_arg(call.args[i])

\* the command code and the first n operands of a call
RECURSIVE CallText(_, _)
CallText(call, n) ==
    IF n = 0 THEN call.c
    ELSE CallText(call, n - 1) \o " " \o OperandText(call, n)

RECURSIVE LogText(_)
LogText(log) ==
    IF Len(log) = 0 THEN ""
    ELSE IF Len(log) = 1 THEN CallText(log[1], Arity(log[1].c))
    ELSE LogText(Front(log)) \o " " \o CallText(Last(log), Arity(Last(log).c))

\* the calls of a history laid out as the tokens they should produce
RECURSIVE Flat(_)
Flat(log) ==
    IF Len(log) = 0 THEN <<>>
    ELSE Flat(Front(log)) \o <<[kind |-> "code", c |-> Last(log).c, arg |-> None]>>
           \o [i \in 1..Len(Last(log).args) |->
                 [kind |-> IF IsFlag(Last(log).c, i) THEN "flag" ELSE "coord",
                  c |-> Last(log).c, arg |-> Last(log).args[i]]]

NoStraySpace(s) ==
    /\ Len(s) > 0 => Char(s, 1) # " " /\ Char(s, Len(s)) # " "
    /\ \A i \in 1..(Len(s) - 1) : ~(Char(s, i) = " " /\ Char(s, i + 1) = " ")

Example == <<[c |-> "M", args |-> <<PyInt(1), PyInt(2)>>],
             [c |-> "L", args |-> <<PyFloat(3456), PyInt(4)>>]>>

(***************************************************************************)
(* C1: d() is the tokens of the builder calls in call order, each call its *)
(* command code followed by its operands in argument order (as many as the *)
(* command takes), joined by exactly one space with no separator at either *)
(* end; with no calls it is the empty string.                              *)
(***************************************************************************)
C1_Serialization ==
    \A self \in Paths :
        /\ \A i \in 1..Len(calls[self]) :
              Len(calls[self][i].args) = Arity(calls[self][i].c)
        /\ Len(_Path__d[self]) = Len(Flat(calls[self]))
        /\ d(self) = LogText(calls[self])
        /\ NoStraySpace(d(self))
        /\ calls[self] = <<>> => d(self) = ""

C1_Witness ==
    /\ Len(calls["path1"]) = 2
    /\ calls["path1"][1].c = "C"
    /\ d("path1") = "C 1 2 3.46 4 -0.0 0.12 Z"

(***************************************************************************)
(* C2 as stated: every coordinate operand, whatever its numeric type, is   *)
(* serialized as a decimal number rounded to two decimals, and             *)
(* M(1,2).L(3.456,4) serializes to "M 1.0 2.0 L 3.46 4.0".                 *)
(***************************************************************************)
C2_AlwaysDecimal ==
    \A self \in Paths :
        /\ \A j \in 1..Len(_Path__d[self]) :
              Flat(calls[self])[j].kind = "coord"
                  => IsRounded(_Path__d[self][j], Flat(calls[self])[j].arg)
        /\ calls[self] = Example => d(self) = "M 1.0 2.0 L 3.46 4.0"

(***************************************************************************)
(* C2 amended: a float operand is serialized as a decimal number rounded   *)
(* to two decimals; an int operand is serialized as its integer literal,   *)
(* with no decimal point; M(1,2).L(3.456,4) serializes to                  *)
(* "M 1 2 L 3.46 4".                                                       *)
(***************************************************************************)
C2_DecimalForFloats ==
    \A self \in Paths :
        /\ \A j \in 1..Len(_Path__d[self]) :
              LET e == Flat(calls[self])[j]
              IN /\ (e.kind = "coord" /\ e.arg.t = "float")
                        => IsRounded(_Path__d[self][j], e.arg)
                 /\ (e.kind = "coord" /\ e.arg.t = "int")
                        => IsLiteral(_Path__d[self][j], e.arg)
        /\ calls[self] = Example => d(self) = "M 1 2 L 3.46 4"

C2_Witness ==
    /\ calls["path1"] = Example
    /\ _Path__d["path1"] = <<"M", "1", "2", "L", "3.46", "4">>

(***************************************************************************)
(* C3: d() is idempotent and read-only.  A call of d() returns the join of *)
(* the commands and leaves the command sequence unchanged, a call of d()   *)
(* right after another returns the same string, and after a builder call   *)
(* that follows d() the serialization is the string d() returned extended  *)
(* by the new command.                                                     *)
(***************************************************************************)
Returned_d == Path_ret'.kind = "str" /\ calls' = calls

Extended(s, call) ==
    IF s = "" THEN CallText(call, Arity(call.c))
    ELSE s \o " " \o CallText(call, Arity(call.c))

C3_dReadOnly ==
    [][\A self \in Paths :
          /\ Returned_d => /\ _Path__d' = _Path__d
                           /\ Path_ret.kind = "str" => Path_ret' = Path_ret
          /\ (Path_ret.kind = "str" /\ Len(calls'[self]) = Len(calls[self]) + 1)
                => join(_Path__d'[self]) = Extended(Path_ret.v, Last(calls'[self]))
      ]_vars

C3_Witness ==
    /\ Path_ret.kind = "str"
    /\ Path_ret.v = "M 1 2 L 3.46 4"
    /\ d("path1") = Path_ret.v

(***************************************************************************)
(* C10: the command sequence is append-only.  Every builder call appends   *)
(* exactly one command (its code and operands) after the tokens already    *)
(* there and returns the Path it was called on, so the serialization       *)
(* before a call is a prefix of the serialization after it; no step        *)
(* removes or reorders earlier tokens.                                     *)
(***************************************************************************)
Codes == {"M", "m", "L", "l", "H", "h", "V", "v", "C", "c", "S", "s",
          "Q", "q", "T", "t", "A", "a", "Z", "z"}

C10_AppendOnly ==
    [][\A self \in Paths :
          /\ IsPrefix(_Path__d[self], _Path__d'[self])
          /\ IsPrefix(join(_Path__d[self]), join(_Path__d'[self]))
          /\ calls'[self] # calls[self] =>
                LET new == SubSeq(_Path__d'[self], Len(_Path__d[self]) + 1,
                                  Len(_Path__d'[self]))
                IN /\ calls'[self] = Append(calls[self], Last(calls'[self]))
                   /\ Len(new) = 1 + Arity(Last(calls'[self]).c)
                   /\ new[1] = Last(calls'[self]).c
                   /\ \A i \in 2..Len(new) : new[i] \notin Codes
                   /\ Path_ret' = [kind |-> "self", v |-> self]
      ]_vars

C10_Witness ==
    /\ Path_ret = [kind |-> "self", v |-> "path1"]
    /\ _Path__d["path1"] = <<"Z", "a", "1", "2", "3.46", "1", "0", "4", "-0.0">>

(***************************************************************************)
(* Turtle histories                                                        *)
(***************************************************************************)
\* the turtle was created at the origin with heading 0 degrees
AtOriginHeading0(t) ==
    \A i \in 1..3 : ops[t][1].args[i].m = 0

\* the calls made on the turtle since its creation are exactly these
Did(t, names) ==
    /\ Len(ops[t]) = Len(names) + 1
    /\ \A i \in 1..Len(names) : ops[t][i + 1].op = names[i]

MoveLine(zero, ten) ==
    <<[c |-> "M", args |-> <<zero, zero>>], [c |-> "L", args |-> <<ten, zero>>]>>

(***************************************************************************)
(* C4 as stated: a Turtle created at the origin with heading 0 degrees,    *)
(* after pd() then f(10), produces the same path data as a Path given      *)
(* M(0,0) then L(10,0) (whether the Path is given ints or floats).         *)
(***************************************************************************)
C4_SameAsMoveThenLine ==
    \A t \in Turtles :
        (AtOriginHeading0(t) /\ Did(t, <<"pd", "f">>) /\ ops[t][3].args[1].m = 10000)
            => \/ d(_path[t]) = LogText(MoveLine(PyInt(0), PyInt(10)))
               \/ d(_path[t]) = LogText(MoveLine(PyFloat(0), PyFloat(10000)))

(***************************************************************************)
(* C4 amended: a Turtle created at the origin with heading 0 degrees,      *)
(* after pd() then f(10), produces the path data "L 10.0 0.0", that of a   *)
(* Path given L(10.0, 0.0) alone: no command emits the starting position.  *)
(* After p(0, 0), pd() then f(10) it produces the same path data as a Path *)
(* given M(0.0, 0.0) then L(10.0, 0.0).                                    *)
(***************************************************************************)
C4_LineWithoutMove ==
    \A t \in Turtles :
        /\ (AtOriginHeading0(t) /\ Did(t, <<"pd", "f">>)
                /\ ops[t][3].args[1].m = 10000)
             => /\ d(_path[t]) = "L 10.0 0.0"
                /\ d(_path[t]) =
                     LogText(<<[c |-> "L", args |-> <<PyFloat(10000), PyFloat(0)>>]>>)
        /\ (AtOriginHeading0(t) /\ Did(t, <<"p", "pd", "f">>)
                /\ ops[t][2].args[1].m = 0 /\ ops[t][2].args[2].m = 0
                /\ ops[t][4].args[1].m = 10000)
             => d(_path[t]) = LogText(MoveLine(PyFloat(0), PyFloat(10000)))

C4_Witness ==
    /\ AtOriginHeading0("turtle1")
    /\ Did("turtle1", <<"pd", "f">>)
    /\ ops["turtle1"][3].args[1].m = 10000
    /\ Turtle_ret = [kind |-> "str", v |-> "L 10.0 0.0"]

(***************************************************************************)
(* C5: the M and L commands in the turtle's path are as many as the        *)
(* position-changing calls made (f, b, p), one per call and in call order, *)
(* L where the pen was down at the time of the call and M otherwise; each  *)
(* f(distance) / b(distance) sets the position to position + heading *     *)
(* distance (b: -distance) and appends exactly one command, whose operands *)
(* are the new position.                                                   *)
(***************************************************************************)
IsMove(e) == e.op \in {"f", "b", "p"}
IsMoveOrLine(tok) == tok \in {"M", "L"}

PenLetters(log) ==
    [i \in 1..Len(log) |-> IF log[i].pd THEN "L" ELSE "M"]

C5_CommandPerMove ==
    \A t \in Turtles :
        /\ Len(SelectSeq(_Path__d[_path[t]], IsMoveOrLine))
             = Len(SelectSeq(ops[t], IsMove))
        /\ SelectSeq(_Path__d[_path[t]], IsMoveOrLine)
             = PenLetters(SelectSeq(ops[t], IsMove))

C5_MoveThenEmit ==
    \A t \in Turtles :
        (Len(ops'[t]) = Len(ops[t]) + 1 /\ Last(ops'[t]).op \in {"f", "b"}) =>
            LET e == Last(ops'[t])
                dist == IF e.op = "f" THEN e.args[1].m ELSE 0 - e.args[1].m
                old == _Path__d[_path[t]]
                new == _Path__d'[_path[t]]
            IN /\ _p'[t].x.m * 1000 = _p[t].x.m * 1000 + _a[t].x.m * dist
               /\ _p'[t].y.m * 1000 = _p[t].y.m * 1000 + _a[t].y.m * dist
               /\ Len(new) = Len(old) + 3
               /\ SubSeq(new, 1, Len(old)) = old
               /\ new[Len(old) + 1] = (IF _pd[t] THEN "L" ELSE "M")
               /\ IsRounded(new[Len(old) + 2], _p'[t].x)
               /\ IsRounded(new[Len(old) + 3], _p'[t].y)

C5_PathFollowsPosition == []C5_CommandPerMove /\ [][C5_MoveThenEmit]_vars

C5_Witness ==
    /\ Did("turtle1", <<"f", "pd", "b">>)
    /\ ops["turtle1"][2].args[1].m = 3456
    /\ ops["turtle1"][4].args[1].m = 10000
    /\ _Path__d["tpath1"] = <<"M", "3.46", "0.0", "L", "-6.54", "0.0">>

(***************************************************************************)
(* Scene histories                                                         *)
(***************************************************************************)
\* the table as call i of the history left it
After(i) == IF i = Len(calls_o) THEN data ELSE calls_o[i + 1].before

RowOf(table, key) ==
    table.rows[CHOOSE i \in 1..Len(table.rows) : table.rows[i][1] = key][2]

\* the override column and the base column of the row with the given key
Override(table, key) == RowOf(table, key)[2]
Base(table, key) == RowOf(table, key)[1]

Keys(table) == [i \in 1..Len(table.rows) |-> table.rows[i][1]]

IsRedraw(i) == calls_o[i].op \in {"draw", "reset"}

(***************************************************************************)
(* C6: for a reference r into a row whose override column is empty,        *)
(* draw(r, attrs) followed by reset(r) leaves the override column as it    *)
(* was before draw was called, the empty string, for any attrs.            *)
(***************************************************************************)
C6_DrawThenReset ==
    \A i \in 1..(Len(calls_o) - 1) :
        (/\ calls_o[i].op = "draw"
         /\ calls_o[i + 1].op = "reset"
         /\ calls_o[i + 1].ref = calls_o[i].ref
         /\ Override(calls_o[i].before, calls_o[i].ref.key) = "")
            => /\ Override(After(i + 1), calls_o[i].ref.key)
                    = Override(calls_o[i].before, calls_o[i].ref.key)
               /\ Override(After(i + 1), calls_o[i].ref.key) = ""

C6_Witness ==
    /\ Len(calls_o) = 3
    /\ calls_o[2].op = "draw" /\ calls_o[2].ref = Ref("a")
    /\ calls_o[3].op = "reset" /\ calls_o[3].ref = Ref("a")
    /\ Override(calls_o[2].before, "a") = ""
    /\ Override(calls_o[3].before, "a") = "{\"x\": 2, \"fill\": \"red\"}"
    /\ Override(data, "a") = ""

(***************************************************************************)
(* C7: reset is idempotent: from any state of a scene row, reset(r) called *)
(* twice in a row leaves the table as the first call left it.              *)
(***************************************************************************)
C7_ResetIdempotent ==
    \A i \in 1..(Len(calls_o) - 1) :
        (/\ calls_o[i].op = "reset"
         /\ calls_o[i + 1].op = "reset"
         /\ calls_o[i + 1].ref = calls_o[i].ref)
            => After(i + 1) = After(i)

C7_Witness ==
    /\ Len(calls_o) = 4
    /\ calls_o[2].op = "draw" /\ calls_o[2].ref = Ref("b")
    /\ calls_o[3].op = "reset" /\ calls_o[3].ref = Ref("b")
    /\ calls_o[4].op = "reset" /\ calls_o[4].ref = Ref("b")
    /\ Override(calls_o[3].before, "b") = "{\"x\": 1}"
    /\ Override(data, "b") = ""

(***************************************************************************)
(* C8: scene(k1=e1, ..., kn=en) returns a table with the fields d and o    *)
(* and exactly one row per key, in the insertion order of the keys; every  *)
(* row has both columns, d the JSON encoding of the element's attributes   *)
(* and o the empty string.                                                 *)
(***************************************************************************)
CircleAndRect ==
    <<<<"a", circle(<<<<"r", PyInt(5)>>>>)>>,
      <<"b", rect(<<<<"x", PyInt(1)>>, <<"y", PyInt(2)>>>>)>>>>

C8_SceneTable ==
    (Len(calls_o) > 0 /\ calls_o[1].op = "scene") =>
        LET kwargs == calls_o[1].kwargs
            table == After(1)
        IN /\ calls_o[1].before = None
           /\ table.fields = <<"d", "o">>
           /\ Len(table.rows) = Len(kwargs)
           /\ \A i \in 1..Len(kwargs) :
                /\ table.rows[i][1] = kwargs[i][1]
                /\ Len(table.rows[i][2]) = 2
                /\ table.rows[i][2][1] = json_dumps(expando_to_dict(kwargs[i][2]))
                /\ table.rows[i][2][2] = ""
           /\ \A i, j \in 1..Len(table.rows) :
                table.rows[i][1] = table.rows[j][1] => i = j
           /\ kwargs = CircleAndRect =>
                table.rows = <<<<"a", <<"{\"r\": 5, \"_t\": \"c\"}", "">>>>,
                               <<"b", <<"{\"x\": 1, \"y\": 2, \"_t\": \"r\"}", "">>>>>>
           /\ Len(calls_o) = 1 => Ref_ret = table

C8_Witness ==
    /\ Len(calls_o) = 1
    /\ calls_o[1].kwargs = <<CircleAndRect[2], CircleAndRect[1]>>
    /\ Keys(data) = <<"b", "a">>
    /\ Ref_ret = data

(***************************************************************************)
(* C9: draw(r, attrs) and reset(r) write only the override column o of the *)
(* referenced row and return the reference they were given: across every   *)
(* draw / reset call the fields, the keys and their order, the base column *)
(* d of every row and the override column of every other row are           *)
(* unchanged.                                                              *)
(***************************************************************************)
C9_OnlyTheOverride ==
    /\ \A i \in 1..Len(calls_o) :
          IsRedraw(i) =>
              /\ After(i).fields = calls_o[i].before.fields
              /\ Keys(After(i)) = Keys(calls_o[i].before)
              /\ \A n \in 1..Len(After(i).rows) : Len(After(i).rows[n][2]) = 2
              /\ \A n \in 1..Len(Keys(After(i))) :
                    LET key == Keys(After(i))[n]
                    IN /\ Base(After(i), key) = Base(calls_o[i].before, key)
                       /\ key # calls_o[i].ref.key =>
                            Override(After(i), key) = Override(calls_o[i].before, key)
    /\ (Len(calls_o) > 0 /\ IsRedraw(Len(calls_o))) => Ref_ret = Last(calls_o).ref

C9_Witness ==
    /\ Len(calls_o) = 3
    /\ calls_o[2].op = "draw" /\ calls_o[2].ref = Ref("a")
    /\ calls_o[3].op = "draw" /\ calls_o[3].ref = Ref("b")
    /\ Ref_ret = Ref("b")
    /\ data.rows = <<<<"a", <<"{\"r\": 5, \"_t\": \"c\"}", "{\"x\": 1}">>>>,
                     <<"b", <<"{\"x\": 1, \"y\": 2, \"_t\": \"r\"}", "{}">>>>>>

(***************************************************************************)
(* C11: turn sign convention.  From any Turtle state and for every d, a    *)
(* call l(d) leaves the turtle in the state r(-d) leaves it in: the        *)
(* heading r(-d) computes, and the position, pen, path object and path     *)
(* commands unchanged.                                                     *)
(***************************************************************************)
\* the step is a call of the named operation on turtle t
Called(t, name) ==
    /\ Len(ops'[t]) = Len(ops[t]) + 1
    /\ Last(ops'[t]).op = name

\* what r(degrees) does to turtle t, the history apart
Effect_r(t, degrees) ==
    /\ _rotate(t, degrees)
    /\ UNCHANGED <<_p, _pd, _path, PathVars>>

C11_LeftIsRightNegated ==
    [][\A t \in Turtles :
          Called(t, "l") => Effect_r(t, neg(Last(ops'[t]).args[1]))
      ]_vars

C11_Witness ==
    /\ Did("turtle1", <<"l", "r">>)
    /\ ops["turtle1"][1].args[3].m = 0
    /\ ops["turtle1"][2].args[1] = PyInt(90)
    /\ ops["turtle1"][3].args[1] = PyFloat(-90000)
    /\ _a["turtle1"] = _Vec(PyFloat(-1000), PyFloat(0))

(***************************************************************************)
(* Element histories                                                       *)
(***************************************************************************)
Constructors == {"arc", "circle", "ellipse", "image", "line", "path",
                 "polygon", "polyline", "rect", "text"}

IsConstruction(i) == el_calls[i].op \in Constructors

(***************************************************************************)
(* C12: a shape constructor called twice with identical arguments yields   *)
(* two elements whose attribute mappings are equal by value and that are   *)
(* not the same instance: a change of the attributes of one element (and   *)
(* the construction of another) leaves every other element as it was.      *)
(***************************************************************************)
C12_EqualNotSame ==
    \A i, j \in 1..Len(el_calls) :
        (/\ i < j
         /\ IsConstruction(i) /\ IsConstruction(j)
         /\ el_calls[i].op = el_calls[j].op
         /\ el_calls[i].args = el_calls[j].args)
            => /\ el_calls[i].val = el_calls[j].val
               /\ el_calls[i].ref # el_calls[j].ref

C12_OthersUntouched ==
    (Len(el_calls') = Len(el_calls) + 1) =>
        /\ Len(heap') >= Len(heap)
        /\ \A ref \in 1..Len(heap) :
              (Last(el_calls').op # "setattr" \/ ref # Last(el_calls').ref)
                  => heap'[ref] = heap[ref]

C12_Independent == []C12_EqualNotSame /\ [][C12_OthersUntouched]_vars

C12_Witness ==
    /\ Len(el_calls) = 3
    /\ el_calls[1].op = "circle" /\ el_calls[1].args = <<Radius>>
    /\ el_calls[2].op = "circle" /\ el_calls[2].args = <<Radius>>
    /\ el_calls[3].op = "setattr" /\ el_calls[3].ref = 1
    /\ heap[1] = Expando(<<<<"r", PyInt(7)>>, <<"_t", PyStr("c")>>>>)
    /\ heap[2] = Expando(<<<<"r", PyInt(5)>>, <<"_t", PyStr("c")>>>>)

(***************************************************************************)
(* C13: type_of gives back the constructor: for an element built by arc,   *)
(* circle, ellipse, image, line, path, polygon, polyline, rect or text it  *)
(* returns that shape's name; for an element whose discriminator is none   *)
(* of the ten reserved codes it returns None.                              *)
(***************************************************************************)
Reserved == {"a", "c", "e", "i", "l", "p", "pg", "pl", "r", "t"}

ShapeOf(code) ==
    CASE code = "a" -> "arc" [] code = "c" -> "circle" [] code = "e" -> "ellipse"
      [] code = "i" -> "image" [] code = "l" -> "line" [] code = "p" -> "path"
      [] code = "pg" -> "polygon" [] code = "pl" -> "polyline"
      [] code = "r" -> "rect" [] code = "t" -> "text"

Discriminator(e) == dict_get(e.kv, "_t").s

C13_TypeOfConstructed ==
    \A i \in 1..Len(el_calls) :
        /\ IsConstruction(i) => type_of(el_calls[i].val) = PyStr(el_calls[i].op)
        /\ el_calls[i].op = "type_of" =>
              IF Discriminator(el_calls[i].val) \in Reserved
              THEN el_calls[i].ret = PyStr(ShapeOf(Discriminator(el_calls[i].val)))
              ELSE el_calls[i].ret = None

C13_Witness ==
    /\ Len(el_calls) = 3
    /\ el_calls[1].op = "polyline"
    /\ el_calls[2].op = "type_of" /\ el_calls[2].ret = PyStr("polyline")
    /\ el_calls[3].op = "setattr" /\ el_calls[3].args = <<"_t", PyStr("zz")>>
    /\ type_of(heap[1]) = None

(***************************************************************************)
(* C14: rotate(0) is the identity; (1,0) rotated by a quarter turn is      *)
(* (0,1); rotate(a) followed by rotate(b) equals rotate(a+b), for angles   *)
(* that are multiples of a quarter turn; rotate returns a new vector and   *)
(* the vector it was called on keeps its value.                            *)
(***************************************************************************)
QuarterTurn == radians(PyInt(90))
SumOf(a, b) == [t |-> "rad", k |-> a.k + b.k]

C14_Rotate ==
    \A i \in 1..Len(vec_log) :
        LET c == vec_log[i]
        IN /\ c.a.k = 0 => c.ret = c.recv
           /\ (c.recv = UnitVec /\ c.a = QuarterTurn)
                 => c.ret = _Vec(PyInt(0), PyInt(1))
           /\ (i > 1 /\ vec_log[i - 1].ret = c.recv)
                 => c.ret = _Vec_rotate(vec_log[i - 1].recv,
                                        SumOf(vec_log[i - 1].a, c.a))

C14_ReceiverKept ==
    (Len(vec_log') = Len(vec_log) + 1 /\ ~Last(vec_log').rebound)
        => /\ vec' = vec
           /\ Last(vec_log').recv = vec

C14_Rotation == []C14_Rotate /\ [][C14_ReceiverKept]_vars

C14_Witness ==
    /\ Len(vec_log) = 3
    /\ vec_log[1].recv = UnitVec /\ vec_log[1].a = QuarterTurn
    /\ vec_log[1].rebound
    /\ vec_log[2].recv = _Vec(PyInt(0), PyInt(1)) /\ vec_log[2].a = QuarterTurn
    /\ vec_log[2].ret = _Vec(PyInt(-1), PyInt(0))
    /\ ~vec_log[2].rebound
    /\ vec_log[3].a.k = 0 /\ vec_log[3].ret = _Vec(PyInt(0), PyInt(1))

(***************************************************************************)
(* C15: pu(close) always leaves the pen up; when close is true it appends  *)
(* exactly one Z command to the path, whether the pen was down before the  *)
(* call or not; when close is false the path is unchanged.  Position and   *)
(* heading are unchanged in both cases.                                    *)
(***************************************************************************)
C15_PenUp ==
    [][\A t \in Turtles :
          Called(t, "pu") =>
              /\ ~_pd'[t]
              /\ _path'[t] = _path[t]
              /\ _Path__d'[_path[t]] =
                    (IF truthy(Last(ops'[t]).args[1])
                     THEN Append(_Path__d[_path[t]], "Z")
                     ELSE _Path__d[_path[t]])
              /\ _p'[t] = _p[t]
              /\ _a'[t] = _a[t]
      ]_vars

C15_Witness ==
    /\ Did("turtle1", <<"pu", "pd", "pu">>)
    /\ truthy(ops["turtle1"][2].args[1]) /\ ~ops["turtle1"][2].pd
    /\ truthy(ops["turtle1"][4].args[1]) /\ ops["turtle1"][4].pd
    /\ d(_path["turtle1"]) = "Z Z"
    /\ ~_pd["turtle1"]

(***************************************************************************)
(* C16: p(x, y) sets the position to exactly (x, y), whatever the position *)
(* and heading before, and appends exactly one command with the operands   *)
(* (x, y): L if the pen is down, M otherwise.  Heading and pen state are   *)
(* unchanged.                                                              *)
(***************************************************************************)
C16_SetPosition ==
    [][\A t \in Turtles :
          Called(t, "p") =>
              LET x == Last(ops'[t]).args[1]
                  y == Last(ops'[t]).args[2]
                  old == _Path__d[_path[t]]
                  new == _Path__d'[_path[t]]
              IN /\ _p'[t].x.m = x.m /\ _p'[t].y.m = y.m
                 /\ Len(new) = Len(old) + 3
                 /\ SubSeq(new, 1, Len(old)) = old
                 /\ new[Len(old) + 1] = (IF _pd[t] THEN "L" ELSE "M")
                 /\ IsRounded(new[Len(old) + 2], PyFloat(x.m))
                 /\ IsRounded(new[Len(old) + 3], PyFloat(y.m))
                 /\ _a'[t] = _a[t]
                 /\ _pd'[t] = _pd[t]
      ]_vars

C16_Witness ==
    /\ Did("turtle1", <<"f", "pd", "p">>)
    /\ ops["turtle1"][2].args[1].m # 0
    /\ ops["turtle1"][4].args = <<PyFloat(1500), PyInt(-2)>>
    /\ _p["turtle1"] = _Vec(PyFloat(1500), PyFloat(-2000))
    /\ _pd["turtle1"]
    /\ SubSeq(_Path__d[_path["turtle1"]], 4, 6) = <<"L", "1.5", "-2.0">>

(***************************************************************************)
(* C17: l, r, a and pd emit no path command and leave the position         *)
(* unchanged; l, r and a change only the heading (the pen stays as it      *)
(* was), pd changes only the pen (the heading stays as it was); d() and    *)
(* path() change nothing of the turtle: position, heading, pen and the     *)
(* commands of its path are as before.                                     *)
(***************************************************************************)
Quiet(t) ==
    /\ _path'[t] = _path[t]
    /\ _Path__d'[_path[t]] = _Path__d[_path[t]]
    /\ _p'[t] = _p[t]

Asked(t) ==
    /\ ops'[t] = ops[t]
    /\ Turtle_ret'.kind \in {"str", "el"}

C17_Frames ==
    [][\A t \in Turtles :
          /\ (Called(t, "l") \/ Called(t, "r") \/ Called(t, "a"))
                => Quiet(t) /\ _pd'[t] = _pd[t]
          /\ Called(t, "pd")
                => Quiet(t) /\ _a'[t] = _a[t] /\ _pd'[t]
          /\ Asked(t)
                => Quiet(t) /\ _a'[t] = _a[t] /\ _pd'[t] = _pd[t]
      ]_vars

C17_Witness ==
    /\ AtOriginHeading0("turtle1")
    /\ Did("turtle1", <<"f", "r", "pd">>)
    /\ ops["turtle1"][2].args[1].m = 10000
    /\ ops["turtle1"][3].args[1].m = 90000
    /\ Turtle_ret.kind = "el"
    /\ _Path__d[_path["turtle1"]] = <<"M", "10.0", "0.0">>
    /\ _p["turtle1"] = _Vec(PyInt(10), PyInt(0))
    /\ _a["turtle1"] = _Vec(PyInt(0), PyInt(1))
    /\ _pd["turtle1"]

(***************************************************************************)
(* C18: a Turtle just constructed by Turtle(x, y, degrees) has position    *)
(* (x, y), heading (1,0) rotated by the angle, the pen up and an empty     *)
(* path, so d() is the empty string.  No command is emitted for the        *)
(* starting position: the path has no M and no L until the first f, b or   *)
(* p call, and that call emits M unless pd() was called before it.         *)
(***************************************************************************)
Fresh(t) == Len(ops[t]) = 1

Moves(t) == {i \in 1..Len(ops[t]) : IsMove(ops[t][i])}

FirstMove(t) == CHOOSE i \in Moves(t) : \A j \in Moves(t) : i <= j

C18_FreshTurtle ==
    \A t \in Turtles :
        /\ Fresh(t) =>
              /\ _p[t].x.m = ops[t][1].args[1].m
              /\ _p[t].y.m = ops[t][1].args[2].m
              /\ _a[t] = _Vec_rotate(UnitVec, radians(ops[t][1].args[3]))
              /\ ~_pd[t]
              /\ _Path__d[_path[t]] = <<>>
              /\ d(_path[t]) = ""
        /\ Moves(t) = {} =>
              SelectSeq(_Path__d[_path[t]], IsMoveOrLine) = <<>>
        /\ (/\ Moves(t) # {}
            /\ \A j \in 1..(FirstMove(t) - 1) : ops[t][j].op # "pd")
              => Head(SelectSeq(_Path__d[_path[t]], IsMoveOrLine)) = "M"

C18_Witness ==
    /\ Did("turtle1", <<"r", "f">>)
    /\ ops["turtle1"][1].args = <<PyInt(1), PyInt(2), PyInt(90)>>
    /\ ops["turtle1"][3].args[1].m = 10000
    /\ _Path__d[_path["turtle1"]][1] = "M"
    /\ _p["turtle1"] # _Vec(PyInt(1), PyInt(2))

(***************************************************************************)
(* C19: A and a append seven operands in the order rx, ry,                 *)
(* x_axis_rotation, large-arc flag, sweep flag, x, y; each flag is the     *)
(* literal 1 when the argument is true and the literal 0 when it is false, *)
(* never a boolean word or a decimal.                                      *)
(***************************************************************************)
IsOperand(s, x) == IF x.t = "float" THEN IsRounded(s, x) ELSE IsLiteral(s, x)

FlagLiteral(x) == IF truthy(x) THEN "1" ELSE "0"

C19_ArcOperands ==
    [][\A self \in Paths :
          (/\ Len(calls'[self]) = Len(calls[self]) + 1
           /\ Last(calls'[self]).c \in {"A", "a"})
            => LET e == Last(calls'[self])
                   n == Len(_Path__d[self])
                   new == _Path__d'[self]
               IN /\ Len(new) = n + 8
                  /\ new[n + 1] = e.c
                  /\ IsOperand(new[n + 2], e.args[1])
                  /\ IsOperand(new[n + 3], e.args[2])
                  /\ IsOperand(new[n + 4], e.args[3])
                  /\ new[n + 5] = FlagLiteral(e.args[4])
                  /\ new[n + 6] = FlagLiteral(e.args[5])
                  /\ IsOperand(new[n + 7], e.args[6])
                  /\ IsOperand(new[n + 8], e.args[7])
      ]_vars

C19_Witness ==
    /\ Len(calls["path1"]) = 2
    /\ calls["path1"][1].c = "A"
    /\ calls["path1"][1].args[4] = PyBool(TRUE)
    /\ calls["path1"][1].args[5] = PyBool(FALSE)
    /\ calls["path1"][2].c = "a"
    /\ calls["path1"][2].args[4] = PyBool(FALSE)
    /\ calls["path1"][2].args[5] = PyBool(TRUE)
    /\ d("path1") = "A 3.46 4 -0.0 1 0 0.12 10.0 a 1 2 3.46 0 1 4 -0.0"

(***************************************************************************)
(* C20: Path.path and Turtle.path, called with extra attributes, return a *)
(* path-kind element whose d attribute is d() at the moment of the call,   *)
(* merged with the extra attributes; the call leaves the commands as they  *)
(* were; the element is a snapshot: commands appended afterwards do not    *)
(* change the d attribute of an element already returned.                  *)
(***************************************************************************)
C20_Snapshot ==
    \A i \in 1..Len(held) :
        LET h == held[i]
        IN /\ Expando___getitem__(h.el, "_t") = PyStr("p")
           /\ Expando___getitem__(h.el, "d")
                 = PyStr(LogText(SubSeq(calls[h.of], 1, h.n)))
           /\ \A k \in dict_keys(h.kwargs) :
                 Expando___getitem__(h.el, k) = dict_get(h.kwargs, k)
           /\ dict_keys(expando_to_dict(h.el))
                 = {"d", "_t"} \cup dict_keys(h.kwargs)

C20_PathCall ==
    /\ IsPrefix(held, held')
    /\ Len(held') = Len(held) + 1 =>
          /\ _Path__d' = _Path__d
          /\ calls' = calls
          /\ Expando___getitem__(Last(held').el, "d")
                = PyStr(join(_Path__d[Last(held').of]))

C20_PathElement == []C20_Snapshot /\ [][C20_PathCall]_vars

C20_Witness ==
    /\ Len(held) = 1
    /\ held[1].of = "path1"
    /\ held[1].el = Expando(<<<<"d", PyStr("M 1 2")>>,
                              <<"stroke", PyStr("red")>>,
                              <<"_t", PyStr("p")>>>>)
    /\ d("path1") = "M 1 2 Z"

(***************************************************************************)
(* C21: every element a shape constructor returns carries the              *)
(* discriminator reserved for that constructor (a, c, e, i, l, p, pg, pl,  *)
(* r, t), whatever attributes the caller supplied: a _t among the caller's *)
(* attributes never decides the kind of the element, the constructor       *)
(* writes its own discriminator over it.                                   *)
(***************************************************************************)
CodeOf(shape) ==
    CASE shape = "arc" -> "a" [] shape = "circle" -> "c" [] shape = "ellipse" -> "e"
      [] shape = "image" -> "i" [] shape = "line" -> "l" [] shape = "path" -> "p"
      [] shape = "polygon" -> "pg" [] shape = "polyline" -> "pl"
      [] shape = "rect" -> "r" [] shape = "text" -> "t"

\* the attributes the caller supplied: the last argument of the call
Supplied(call) == Last(call.args)

CallerTagged(call) == "_t" \in dict_keys(Supplied(call))

Occurrences(dict, k) == Cardinality({i \in 1..Len(dict) : dict[i][1] = k})

C21_Stamped ==
    \A i \in 1..Len(el_calls) :
        IsConstruction(i) =>
            LET kv == expando_to_dict(el_calls[i].val)
            IN /\ Occurrences(kv, "_t") = 1
               /\ dict_get(kv, "_t") = PyStr(CodeOf(el_calls[i].op))
               /\ CallerTagged(el_calls[i]) =>
                     /\ dict_get(kv, "_t") # dict_get(Supplied(el_calls[i]), "_t")
                     /\ \A k \in dict_keys(Supplied(el_calls[i])) \ {"_t"} :
                           dict_get(kv, k) = dict_get(Supplied(el_calls[i]), k)

C21_Witness ==
    /\ Len(el_calls) = 3
    /\ el_calls[1].op = "arc" /\ CallerTagged(el_calls[1])
    /\ heap[1] = Expando(<<<<"r1", PyInt(1)>>, <<"r2", PyInt(2)>>,
                           <<"a1", PyInt(0)>>, <<"a2", PyInt(90)>>,
                           <<"_t", PyStr("a")>>>>)
    /\ el_calls[2].op = "text" /\ CallerTagged(el_calls[2])
    /\ heap[2] = Expando(<<<<"text", PyStr("hi")>>, <<"_t", PyStr("t")>>,
                           <<"x", PyInt(1)>>, <<"y", PyInt(2)>>>>)
    /\ el_calls[3].op = "type_of" /\ el_calls[3].ref = 1
    /\ el_calls[3].ret = PyStr("arc")

(***************************************************************************)
(* C22: overrides replace, they do not accumulate.  After any sequence of  *)
(* draw and reset calls on one reference, the override column of its row   *)
(* is the JSON encoding of the attributes of the most recent draw alone if *)
(* the last of these calls was a draw (no attribute of an earlier draw is  *)
(* merged in), and the empty string if it was a reset or if no call was    *)
(* made on the reference.                                                  *)
(***************************************************************************)
RedrawsOf(key) ==
    {i \in 1..Len(calls_o) : IsRedraw(i) /\ calls_o[i].ref.key = key}

LastRedrawOf(key) ==
    CHOOSE i \in RedrawsOf(key) : \A j \in RedrawsOf(key) : j <= i

C22_LastDrawAlone ==
    data # None =>
        \A n \in 1..Len(data.rows) :
            LET key == Keys(data)[n]
            IN IF RedrawsOf(key) = {} THEN Override(data, key) = ""
               ELSE IF calls_o[LastRedrawOf(key)].op = "reset"
                    THEN Override(data, key) = ""
                    ELSE Override(data, key)
                            = json_dumps(calls_o[LastRedrawOf(key)].kwargs)

C22_Witness ==
    /\ Len(calls_o) = 4
    /\ calls_o[2].op = "draw" /\ calls_o[2].ref = Ref("a")
    /\ calls_o[2].kwargs = <<<<"x", PyInt(2)>>, <<"fill", PyStr("red")>>>>
    /\ calls_o[3].op = "draw" /\ calls_o[3].ref = Ref("b")
    /\ calls_o[4].op = "draw" /\ calls_o[4].ref = Ref("a")
    /\ calls_o[4].kwargs = <<<<"x", PyInt(1)>>>>
    /\ Override(calls_o[4].before, "a") = "{\"x\": 2, \"fill\": \"red\"}"
    /\ Override(data, "a") = "{\"x\": 1}"

(***************************************************************************)
(* C23: Path and Turtle instances never share state.  Of two distinct      *)
(* Paths, or two distinct Turtles each owning its own Path, under any      *)
(* interleaving of calls on the two, the command sequence, position,       *)
(* heading and pen state of one are unaffected by a call made on the       *)
(* other.                                                                  *)
(***************************************************************************)
Standalone == Paths \ {_path[t] : t \in Turtles}

OwnPaths ==
    \A t, u \in Turtles : t # u => _path[t] # _path[u]

C23_OthersUnaffected ==
    /\ \A p \in Paths :
          calls'[p] = calls[p] => _Path__d'[p] = _Path__d[p]
    /\ \A p \in Standalone :
          calls'[p] # calls[p] =>
              /\ \A q \in Paths \ {p} : _Path__d'[q] = _Path__d[q]
              /\ <<_p, _a, _pd, _path>>' = <<_p, _a, _pd, _path>>
    /\ \A t \in Turtles :
          ops'[t] # ops[t] =>
              /\ \A q \in Paths \ {_path[t]} : _Path__d'[q] = _Path__d[q]
              /\ \A u \in Turtles \ {t} :
                    /\ _p'[u] = _p[u] /\ _a'[u] = _a[u] /\ _pd'[u] = _pd[u]
                    /\ _path'[u] = _path[u]

C23_NoSharing == []OwnPaths /\ [][C23_OthersUnaffected]_vars

C23_Witness ==
    /\ Did("turtle1", <<"f">>) /\ ops["turtle1"][2].args[1].m = 10000
    /\ Did("turtle2", <<"pd", "f">>) /\ ops["turtle2"][3].args[1].m = 10000
    /\ d(_path["turtle1"]) = "M 10.0 0.0"
    /\ d(_path["turtle2"]) = "L 10.0 0.0"
    /\ ~_pd["turtle1"] /\ _pd["turtle2"]
    /\ d("path1") = "" /\ d("path2") = ""

====
